---- MODULE Spec2Model ----
(***************************************************************************)
(* A model of LyricsGenius' request layer (lyricsgenius/api/base.py:       *)
(* Sender._make_request and the check_token decorator) and of              *)
(* Song.save_lyrics (lyricsgenius/types/song.py).                          *)
(*                                                                         *)
(* Time is counted in tenths of a second.  Python values are tagged        *)
(* records, so that a JSON object, a JSON array, a string and None can be  *)
(* told apart the way the interpreter tells them apart.                    *)
(***************************************************************************)
EXTENDS Integers, Sequences, FiniteSets, TLC

\* ------------------------------------------------------------------ bounds
MaxCalls == 3        \* calls made on one client in one behaviour
MaxSleepTime == 3    \* largest configured sleep_time (tenths of a second)
MaxSaves == 2        \* calls of save_lyrics in one behaviour

\* --------------------------------------------------------------- constants
SLEEP_MIN == 2       \* Sender._SLEEP_MIN = 0.2 s, in tenths of a second
API_ROOT == "https://api.genius.com/"
PUBLIC_API_ROOT == "https://genius.com/api/"

Max(a, b) == IF a >= b THEN a ELSE b
Min(a, b) == IF a <= b THEN a ELSE b

\* The clock that measures the distance of two completions saturates above
\* every sleep the client can be configured with.
ElapsedCap == Max(SLEEP_MIN, MaxSleepTime) + 1

\* ------------------------------------------------------------ Python values
PyNone == [t |-> "none"]
PyStr(s) == [t |-> "str", s |-> s]
PyInt(n) == [t |-> "int", n |-> n]
PyDict(f) == [t |-> "obj", f |-> f]
PyList(q) == [t |-> "arr", q |-> q]
PyBool(b) == [t |-> "bool", b |-> b]
\* A response body that is not JSON (an HTML error page, an empty body).
NotJSON == [t |-> "text"]

\* bool(v)
Truthy(v) ==
    CASE v.t = "none" -> FALSE
      [] v.t = "bool" -> v.b
      [] v.t = "str" -> v.s # ""
      [] v.t = "int" -> v.n # 0
      [] v.t = "obj" -> DOMAIN v.f # {}
      [] v.t = "arr" -> Len(v.q) > 0
      [] OTHER -> TRUE

\* dict.get(k) on a dict
DictGet(d, k) == IF k \in DOMAIN d.f THEN d.f[k] ELSE PyNone

\* `k in v` for a parsed JSON value: a key of a dict, an element of a list.
Contains(k, v) ==
    CASE v.t = "obj" -> k \in DOMAIN v.f
      [] v.t = "arr" -> \E i \in 1..Len(v.q) : v.q[i] = PyStr(k)
      [] OTHER -> FALSE

\* str.format of a description appended to the error text
Format(v) ==
    CASE v.t = "str" -> v.s
      [] v.t = "int" -> "<int>"
      [] v.t = "obj" -> "<dict>"
      [] v.t = "arr" -> "<list>"
      [] OTHER -> "None"

\* The bodies a response may carry.
Bodies ==
    { NotJSON,
      PyDict([response |-> PyDict([a |-> PyInt(1)])]),
      PyDict([a |-> PyInt(1)]),
      PyDict([meta |-> PyDict([message |-> PyStr("invalid token")])]),
      PyDict([error_description |-> PyStr("bad grant")]),
      PyDict([meta |-> PyDict([message |-> PyStr("invalid token")]),
              error_description |-> PyStr("bad grant")]),
      PyDict(<<>>),
      PyDict([meta |-> PyDict([status |-> PyInt(403)])]),
      PyDict([meta |-> PyDict(<<>>), error_description |-> PyStr("bad grant")]),
      PyList(<<PyStr("response")>>) }

Statuses == {200, 201, 204, 403, 500}

\* What the transport does with one request: it times out, or it answers.
NoResponse == [timeout |-> FALSE, status |-> 0, body |-> PyNone]
Transport ==
    { [timeout |-> TRUE, status |-> 0, body |-> PyNone] }
      \cup [timeout : {FALSE}, status : Statuses, body : Bodies]

\* ------------------------------------------------------------------- state
Threads == {"t1", "t2"}
MainThread == "t1"

Tokens == {"tok"}
Bearer(tok) == "Bearer " \o tok
\* The value of the local `header` when nothing was removed.
HdrNone == "None"

VARIABLES
    access_token,   \* Sender.access_token: PyNone or PyStr(token)
    sleep_time,     \* Sender.sleep_time
    headers,        \* Sender._session.headers: header name -> value
    pc,             \* per thread: where its call of _make_request stands
    public_api,     \* per thread: the call's public_api argument
    uri,            \* per thread: the root chosen for the call
    header,         \* per thread: the local `header`
    response,       \* per thread: the local `response`
    sleepLeft,      \* per thread: what is left of time.sleep
    result,         \* per thread: how its last call of _make_request ended
    sent,           \* the HTTP requests issued so far
    elapsed,        \* time since the last call ended (-1: none ended yet)
    unrestored,     \* a call has raised while holding the removed header
    ncalls,         \* calls made on the client
    guard,          \* the last call of a check_token-wrapped operation
    files,          \* the file system save_lyrics writes to
    saved,          \* the last call of save_lyrics
    nsaves          \* calls of save_lyrics made

senderVars == <<access_token, sleep_time, headers, pc, public_api, uri, header,
                response, sleepLeft, result, sent, elapsed, unrestored, ncalls>>
songVars == <<files, saved, nsaves>>
vars == <<senderVars, guard, songVars>>

\* ------------------------------------------------- Sender.__init__ (17-34)
BaseHeaders ==
    [k \in {"application", "User-Agent"} |->
        IF k = "application" THEN "LyricsGenius"
        ELSE "https://github.com/johnwmillr/LyricsGenius"]

\* self._session.headers after construction with `tok`
InitHeaders(tok) ==
    IF tok # PyNone
    THEN BaseHeaders @@ ("authorization" :> Bearer(tok.s))
    ELSE BaseHeaders

\* ------------------------------------------- Sender._make_request (36-87)
\* How a call ends: a returned value or a raised exception.
Returned(v) == [kind |-> "return", status |-> 0, msg |-> <<>>, val |-> v]
Raised(kind, status, msg) ==
    [kind |-> kind, status |-> status, msg |-> msg, val |-> PyNone]
NoOutcome == [kind |-> "none", status |-> 0, msg |-> <<>>, val |-> PyNone]

NoResult ==
    [public_api |-> FALSE, out |-> NoOutcome, slept |-> FALSE, gap |-> -1,
     resp |-> NoResponse, popped |-> HdrNone]

\* self._session.headers.pop('authorization', None): the value removed
PopValue(h) == IF "authorization" \in DOMAIN h THEN h["authorization"] ELSE HdrNone
\* ... and the headers it leaves
PopRest(h) == [k \in DOMAIN h \ {"authorization"} |-> h[k]]

\* lines 45-50: the root, the local `header` and the session headers
ChooseRoot(pub) == IF pub THEN PUBLIC_API_ROOT ELSE API_ROOT
ChooseHeader(pub, h) == IF pub THEN PopValue(h) ELSE HdrNone
\* The removal done for every call, not only for a public one
StripHeadersAlways(pub, h) == PopRest(h)
StripHeaders(pub, h) == IF pub THEN PopRest(h) ELSE h

\* bool(header): None and the empty string are falsy
HeaderTruthy(hdr) == hdr # HdrNone /\ hdr # ""

\* The restoration left out
RestoreHeadersNever(hdr, h) == h
\* lines 75-76: if header: self._session.headers['authorization'] = header
RestoreHeaders(hdr, h) ==
    IF HeaderTruthy(hdr)
    THEN [k \in DOMAIN h \cup {"authorization"} |->
            IF k = "authorization" THEN hdr ELSE h[k]]
    ELSE h

\* The sleep without its floor
SleepForNoFloor(st) == st
\* line 79: max(self._SLEEP_MIN, self.sleep_time)
SleepFor(st) == Max(SLEEP_MIN, st)

\* response.raise_for_status() raises HTTPError for 4xx and 5xx (line 62)
RaiseForStatus(status) == 400 <= status /\ status < 600

\* str(e) of the HTTPError raise_for_status raises (line 67)
OrigError(status) == IF status < 500 THEN "Client Error" ELSE "Server Error"

\* lines 63-65: except Timeout
TimeoutOutcome == Raised("Timeout", 0, <<"Request timed out:\n", "timed out">>)

\* lines 69-71: the description taken from the parsed error body `res`
\* (a dict with a truthy meta)
MetaMessage(res) ==
    LET meta == DictGet(res, "meta") IN
    IF meta.t # "obj" THEN Raised("TypeError", 0, <<>>)
    ELSE IF "message" \notin DOMAIN meta.f THEN Raised("KeyError", 0, <<"message">>)
    ELSE Returned(meta.f["message"])

\* line 72-73: error += '\n{}'.format(description) if description else ''
ErrorWith(status, description) ==
    Raised("HTTPError", status,
           <<OrigError(status)>> \o
             (IF Truthy(description) THEN <<"\n", Format(description)>> ELSE <<>>))

\* lines 66-73: except HTTPError
HTTPErrorOutcome(status, body) ==
    IF body.t = "text" THEN Raised("JSONDecodeError", 0, <<>>)
    ELSE IF body.t # "obj" THEN Raised("AttributeError", 0, <<"get">>)
    ELSE IF Truthy(DictGet(body, "meta"))
         THEN LET m == MetaMessage(body) IN
              IF m.kind = "return" THEN ErrorWith(status, m.val) ELSE m
         ELSE ErrorWith(status, DictGet(body, "error_description"))

\* lines 82-83: res = response.json(); res['response'] if "response" in res else res
Unwrap(body) ==
    IF body.t = "text" THEN Raised("JSONDecodeError", 0, <<>>)
    ELSE IF body.t \notin {"obj", "arr"} THEN Raised("TypeError", 0, <<"in">>)
    ELSE IF Contains("response", body)
         THEN IF body.t = "obj" THEN Returned(body.f["response"])
              ELSE Raised("TypeError", 0, <<"index">>)
         ELSE Returned(body)

\* lines 81-87: the outcome of a response that raised nothing
StatusOutcome(status, body) ==
    IF status = 200 THEN Unwrap(body)
    ELSE IF status = 204 THEN Returned(PyInt(204))
    ELSE Raised("AssertionError", 0,
                <<"Response status code was neither 200, nor 204!">>)

\* The request as the transport sees it: the root and the authorization
\* header the session holds when the request is issued.
RequestOf(t) ==
    [public_api |-> public_api[t], uri |-> uri[t], auth |-> PopValue(headers)]

\* The call of thread t ends with outcome `out`.
Exit(t, out, slept, resp) ==
    /\ result' = [result EXCEPT ![t] =
                    [public_api |-> public_api[t], out |-> out, slept |-> slept,
                     gap |-> elapsed, resp |-> resp, popped |-> header[t]]]
    /\ elapsed' = 0
    /\ pc' = [pc EXCEPT ![t] = "idle"]
    /\ public_api' = [public_api EXCEPT ![t] = FALSE]
    /\ uri' = [uri EXCEPT ![t] = ""]
    /\ header' = [header EXCEPT ![t] = HdrNone]
    /\ response' = [response EXCEPT ![t] = NoResponse]

\* lines 45-56: _make_request is entered with public_api = pub
Enter(t, pub) ==
    /\ pc[t] = "idle"
    /\ ncalls < MaxCalls
    /\ ncalls' = ncalls + 1
    /\ pc' = [pc EXCEPT ![t] = "request"]
    /\ public_api' = [public_api EXCEPT ![t] = pub]
    /\ uri' = [uri EXCEPT ![t] = ChooseRoot(pub)]
    /\ header' = [header EXCEPT ![t] = ChooseHeader(pub, headers)]
    /\ headers' = StripHeaders(pub, headers)
    /\ response' = [response EXCEPT ![t] = NoResponse]
    /\ result' = [result EXCEPT ![t] = NoResult]
    /\ UNCHANGED <<access_token, sleep_time, sleepLeft, sent, elapsed,
                   unrestored>>

\* A direct call of _make_request
Begin(t) ==
    /\ \E pub \in BOOLEAN : Enter(t, pub)
    /\ UNCHANGED <<guard, songVars>>

\* lines 57-73: the request is issued; it times out, answers with an error
\* status, or answers with a status raise_for_status accepts
RequestOver(t, answers) ==
    /\ pc[t] = "request"
    /\ sent' = sent \cup {RequestOf(t)}
    /\ \E tr \in answers :
         IF tr.timeout \/ RaiseForStatus(tr.status)
         THEN /\ Exit(t, IF tr.timeout THEN TimeoutOutcome
                         ELSE HTTPErrorOutcome(tr.status, tr.body),
                      FALSE, tr)
              /\ unrestored' = (unrestored \/ HeaderTruthy(header[t]))
              /\ UNCHANGED <<headers, sleepLeft>>
         ELSE /\ pc' = [pc EXCEPT ![t] = "restore"]
              /\ response' = [response EXCEPT ![t] = tr]
              /\ UNCHANGED <<headers, public_api, uri, header, sleepLeft, result,
                             elapsed, unrestored>>
    /\ UNCHANGED <<access_token, sleep_time, ncalls, guard, songVars>>

Request(t) == RequestOver(t, Transport)

\* A small set of answers: a timeout, a plain success and a plain error.
ConcTransport ==
    { tr \in Transport :
        \/ tr.timeout
        \/ /\ tr.status \in {200, 403}
           /\ tr.body = PyDict([response |-> PyDict([a |-> PyInt(1)])]) }

RequestConc(t) == RequestOver(t, ConcTransport)

\* lines 75-79: the header is put back and time.sleep begins
Restore(t) ==
    /\ pc[t] = "restore"
    /\ headers' = RestoreHeaders(header[t], headers)
    /\ sleepLeft' = [sleepLeft EXCEPT ![t] = SleepFor(sleep_time)]
    /\ pc' = [pc EXCEPT ![t] = "sleep"]
    /\ UNCHANGED <<access_token, sleep_time, public_api, uri, header, response,
                   result, sent, elapsed, unrestored, ncalls, guard, songVars>>

\* lines 81-87: time.sleep has returned; the status code decides the outcome
Finish(t) ==
    /\ pc[t] = "sleep"
    /\ sleepLeft[t] = 0
    /\ Exit(t, StatusOutcome(response[t].status, response[t].body), TRUE,
            response[t])
    /\ UNCHANGED <<access_token, sleep_time, headers, sleepLeft, sent,
                   unrestored, ncalls, guard, songVars>>

\* A tenth of a second passes.
Tick ==
    /\ \/ \E t \in Threads : sleepLeft[t] > 0
       \/ (elapsed >= 0 /\ elapsed < ElapsedCap)
    /\ sleepLeft' = [t \in Threads |-> Max(0, sleepLeft[t] - 1)]
    /\ elapsed' = IF elapsed < 0 THEN elapsed ELSE Min(elapsed + 1, ElapsedCap)
    /\ UNCHANGED <<access_token, sleep_time, headers, pc, public_api, uri,
                   header, response, result, sent, unrestored, ncalls, guard,
                   songVars>>

\* --------------------------------------------------- check_token (90-110)
public_api_msg ==
    "Using this method with the developers API needs an access token. Get an access token or use the public API by setting public_api=True in method parameters."

\* The wrapped operations: the names of their parameters, how many of them
\* have no default, whether they take **kwargs, and the local variables of
\* their bodies.
Ops ==
    { [name |-> "search_songs", params |-> <<"self", "search_term", "public_api">>,
       required |-> 2, varkw |-> FALSE, locals |-> <<"endpoint", "params">>],
      [name |-> "create_annotation", params |-> <<"self", "text">>,
       required |-> 2, varkw |-> FALSE, locals |-> <<"endpoint", "payload">>],
      [name |-> "referents", params |-> <<"self", "text">>,
       required |-> 2, varkw |-> FALSE, locals |-> <<"endpoint", "public_api">>],
      [name |-> "web_page", params |-> <<"self", "text">>,
       required |-> 2, varkw |-> TRUE, locals |-> <<"public_api", "endpoint">>] }

\* The positional arguments after self, and the keyword arguments, of a call.
ArgLists ==
    { <<PyStr("x")>>, <<PyStr("x"), PyBool(TRUE)>>, <<PyStr("x"), PyBool(FALSE)>> }
KwargMaps ==
    { <<>>, [public_api |-> PyBool(TRUE)], [public_api |-> PyBool(FALSE)] }

InSeq(x, q) == \E i \in 1..Len(q) : q[i] = x
IndexOf(x, q) == CHOOSE i \in 1..Len(q) : q[i] = x

\* func.__code__.co_varnames: the parameters, then the local variables
co_varnames(op) ==
    op.params \o (IF op.varkw THEN <<"kwargs">> ELSE <<>>) \o op.locals

\* line 102: "public_api" in func.__code__.co_varnames
public_method(op) == InSeq("public_api", co_varnames(op))

\* line 104: kwargs.get("public_api", False) is False
KwargIsFalse(kwargs) ==
    (IF "public_api" \in DOMAIN kwargs THEN kwargs["public_api"] ELSE PyBool(FALSE))
      = PyBool(FALSE)

\* func(self, *args, **kwargs): whether the arguments bind to the parameters
Binds(op, args, kwargs) ==
    /\ 1 + Len(args) <= Len(op.params)
    /\ \A k \in DOMAIN kwargs :
         IF InSeq(k, op.params) THEN IndexOf(k, op.params) > 1 + Len(args)
         ELSE op.varkw
    /\ \A i \in 1..op.required :
         i <= 1 + Len(args) \/ op.params[i] \in DOMAIN kwargs

\* The value the parameter public_api is bound to, for an operation that
\* declares it.
BoundPublicApi(op, args, kwargs) ==
    LET i == IndexOf("public_api", op.params) IN
    IF i <= 1 + Len(args) THEN args[i - 1]
    ELSE IF "public_api" \in DOMAIN kwargs THEN kwargs["public_api"]
    ELSE PyBool(FALSE)

\* lines 100-109: what a call of the wrapper does
Wrapper(token, op, args, kwargs) ==
    IF token = PyNone /\ public_method(op) /\ KwargIsFalse(kwargs)
    THEN [kind |-> "TokenRequiredError", msg |-> public_api_msg]
    ELSE IF token = PyNone /\ ~public_method(op)
    THEN [kind |-> "TokenRequiredError", msg |-> ""]
    ELSE IF Binds(op, args, kwargs) THEN [kind |-> "invoked", msg |-> ""]
    ELSE [kind |-> "TypeError", msg |-> ""]

\* The public_api an invoked operation hands to _make_request: the value of
\* its parameter when it declares one, and whatever its body chooses when it
\* does not.
SendsPublic(op, args, kwargs) ==
    IF InSeq("public_api", op.params)
    THEN {Truthy(BoundPublicApi(op, args, kwargs))}
    ELSE BOOLEAN

\* A call of a check_token-wrapped operation; an invoked operation sends its
\* request.
GuardedCall(t) ==
    /\ pc[t] = "idle"
    /\ \E op \in Ops, args \in ArgLists, kwargs \in KwargMaps :
         LET out == Wrapper(access_token, op, args, kwargs) IN
         /\ guard' = [op |-> op, args |-> args, kwargs |-> kwargs,
                      out |-> out.kind, msg |-> out.msg]
         /\ IF out.kind = "invoked"
            THEN \E pub \in SendsPublic(op, args, kwargs) : Enter(t, pub)
            ELSE /\ ncalls < MaxCalls
                 /\ ncalls' = ncalls + 1
                 /\ UNCHANGED <<access_token, sleep_time, headers, pc,
                                public_api, uri, header, response, sleepLeft,
                                result, sent, elapsed, unrestored>>
    /\ UNCHANGED songVars

\* ------------------------------------------- Song.save_lyrics (song.py 137-222)
\* The names `filename` may hold after line 197, and what a file may hold:
\* nothing, something written before, or this song as JSON or as text.
FileNames == {"lyrics_a.json", "lyrics_b.txt"}
Extensions == {"json", "txt"}
\* What the user may type at the prompt.
Answers == {"y", "Y", "n", "N", "yes", ""}

\* str.lower() of an answer
Lower(s) ==
    CASE s = "Y" -> "y"
      [] s = "N" -> "n"
      [] OTHER -> s

\* os.path.isfile(filename)
IsFile(fs, name) == fs[name] # "absent"

\* lines 201-205: whether input() is called
Prompts(overwrite, existed, verbose) ==
    ~(overwrite \/ ~existed) /\ verbose

\* lines 200-206: write_file
WriteFile(overwrite, existed, verbose, answer) ==
    \/ overwrite \/ ~existed
    \/ (Prompts(overwrite, existed, verbose) /\ Lower(answer) = "y")

\* lines 199-222: one call of save_lyrics whose file name is `target`
save_lyrics ==
    /\ nsaves < MaxSaves
    /\ nsaves' = nsaves + 1
    /\ \E target \in FileNames, extension \in Extensions,
          overwrite \in BOOLEAN, verbose \in BOOLEAN, answer \in Answers :
         LET existed == IsFile(files, target)
             prompted == Prompts(overwrite, existed, verbose)
             wrote == WriteFile(overwrite, existed, verbose, answer)
         IN /\ files' = IF wrote THEN [files EXCEPT ![target] = extension]
                        ELSE files
            /\ saved' = [filename |-> target, overwrite |-> overwrite,
                         verbose |-> verbose, existed |-> existed,
                         prompted |-> prompted,
                         answer |-> IF prompted THEN answer ELSE "",
                         wrote |-> wrote]
    /\ UNCHANGED <<senderVars, guard>>

\* ------------------------------------------------------------ specification
NoOp == [name |-> "", params |-> <<>>, required |-> 0, varkw |-> FALSE,
         locals |-> <<>>]
NoGuard == [op |-> NoOp, args |-> <<>>, kwargs |-> <<>>, out |-> "none", msg |-> ""]
NoSave == [filename |-> "", overwrite |-> FALSE, verbose |-> FALSE,
           existed |-> FALSE, prompted |-> FALSE, answer |-> "", wrote |-> FALSE]

InitSender ==
    /\ access_token \in {PyNone} \cup {PyStr(tok) : tok \in Tokens}
    /\ sleep_time \in 0..MaxSleepTime
    /\ headers = InitHeaders(access_token)
    /\ pc = [t \in Threads |-> "idle"]
    /\ public_api = [t \in Threads |-> FALSE]
    /\ uri = [t \in Threads |-> ""]
    /\ header = [t \in Threads |-> HdrNone]
    /\ response = [t \in Threads |-> NoResponse]
    /\ sleepLeft = [t \in Threads |-> 0]
    /\ result = [t \in Threads |-> NoResult]
    /\ sent = {}
    /\ elapsed = -1
    /\ unrestored = FALSE
    /\ ncalls = 0

Init ==
    /\ InitSender
    /\ guard = NoGuard
    /\ files = [n \in FileNames |-> "absent"]
    /\ saved = NoSave
    /\ nsaves = 0

\* One client used by one thread: the calls follow one another.
Next ==
    \/ Begin(MainThread)
    \/ Request(MainThread)
    \/ Restore(MainThread)
    \/ Finish(MainThread)
    \/ Tick

Spec == Init /\ [][Next]_vars

\* One client shared by two threads that nothing serializes.
NextConc ==
    \/ \E t \in Threads : Begin(t)
    \/ \E t \in Threads : RequestConc(t)
    \/ \E t \in Threads : Restore(t)
    \/ \E t \in Threads : Finish(t)
    \/ Tick

InitConc ==
    /\ Init
    /\ access_token # PyNone

SpecConc == InitConc /\ [][NextConc]_vars

\* One client whose requests are made through check_token-wrapped operations.
NextGuard ==
    \/ GuardedCall(MainThread)
    \/ RequestConc(MainThread)
    \/ Restore(MainThread)
    \/ Finish(MainThread)
    \/ Tick

SpecGuard == Init /\ [][NextGuard]_vars

\* A song saved to a directory that may hold files already.
InitSong ==
    /\ InitSender
    /\ guard = NoGuard
    /\ files \in [FileNames -> {"absent", "old"}]
    /\ saved = NoSave
    /\ nsaves = 0

NextSong == save_lyrics

SpecSong == InitSong /\ [][NextSong]_vars

\* ------------------------------------------------------------------ claims
\* The last call of _make_request by thread t has ended.
Done(t) == pc[t] = "idle" /\ result[t].out.kind # "none"

\* The last call of thread t got an answer with an error status.
GotErrorStatus(t) ==
    Done(t) /\ ~result[t].resp.timeout /\ result[t].resp.status >= 400

\* The last call of thread t got an answer raise_for_status accepts.
GotPlainStatus(t) ==
    Done(t) /\ ~result[t].resp.timeout /\ result[t].resp.status < 400

\* C1: after a call with public_api=True on a session that held an
\* authorization header, the session holds that header with that value again,
\* however the call ended.
C1_PublicCallRestoresAuthorization ==
    \A t \in Threads :
        (Done(t) /\ result[t].public_api /\ result[t].popped # HdrNone)
            => /\ "authorization" \in DOMAIN headers
               /\ headers["authorization"] = result[t].popped

\* C2: on a client constructed with a token, every request issued with
\* public_api=False goes to the authenticated root with 'Bearer <token>', and
\* every request issued with public_api=True goes to the public root with no
\* authorization header.
C2_RequestsCarryTheRightCredentials ==
    access_token # PyNone =>
        \A r \in sent :
            IF r.public_api
            THEN r.uri = PUBLIC_API_ROOT /\ r.auth = HdrNone
            ELSE r.uri = API_ROOT /\ r.auth = Bearer(access_token.s)

\* The description C3 expects after the original error text: meta.message
\* when present, otherwise error_description when present, otherwise nothing.
ClaimedDescription(body) ==
    IF /\ body.t = "obj"
       /\ "meta" \in DOMAIN body.f
       /\ body.f["meta"].t = "obj"
       /\ "message" \in DOMAIN body.f["meta"].f
    THEN <<"\n", body.f["meta"].f["message"].s>>
    ELSE IF body.t = "obj" /\ "error_description" \in DOMAIN body.f
    THEN <<"\n", body.f["error_description"].s>>
    ELSE <<>>

\* C3: an answer with an error status, whatever its body, ends the call with
\* an HTTPError and nothing else, whose message is the original error text
\* followed by the description the body offers.
C3_ErrorStatusRaisesHTTPError ==
    \A t \in Threads :
        GotErrorStatus(t) =>
            /\ result[t].out.kind = "HTTPError"
            /\ result[t].out.msg =
                 <<OrigError(result[t].resp.status)>>
                   \o ClaimedDescription(result[t].resp.body)

\* The caller of the last wrapped operation passed public_api=True, by
\* keyword or by position.
PassedPublicTrue ==
    \/ ("public_api" \in DOMAIN guard.kwargs
          /\ guard.kwargs["public_api"] = PyBool(TRUE) /\ Len(guard.args) = 1)
    \/ (guard.kwargs = <<>> /\ Len(guard.args) = 2
          /\ guard.args[2] = PyBool(TRUE))

\* ... or left public_api out, or passed False.
PassedPublicFalseOrNothing ==
    \/ (guard.kwargs = <<>> /\ Len(guard.args) = 1)
    \/ ("public_api" \in DOMAIN guard.kwargs
          /\ guard.kwargs["public_api"] = PyBool(FALSE) /\ Len(guard.args) = 1)
    \/ (guard.kwargs = <<>> /\ Len(guard.args) = 2
          /\ guard.args[2] = PyBool(FALSE))

\* C4: without a token, a wrapped operation that declares public_api is
\* invoked when the caller passed public_api=True (by keyword or by
\* position), and fails with TokenRequiredError and its public_api message
\* when public_api was left out or False.
C4_PublicMethodNeedsPublicTrue ==
    (guard.out # "none" /\ access_token = PyNone
       /\ InSeq("public_api", guard.op.params))
        => /\ PassedPublicTrue => guard.out = "invoked"
           /\ PassedPublicFalseOrNothing =>
                (guard.out = "TokenRequiredError" /\ guard.msg = public_api_msg)

\* C5: without a token, a wrapped operation that declares no public_api
\* parameter fails with TokenRequiredError whatever is passed, and is not
\* invoked.
C5_NoFallbackAlwaysFails ==
    (guard.out # "none" /\ access_token = PyNone
       /\ ~InSeq("public_api", guard.op.params))
        => (guard.out = "TokenRequiredError" /\ pc[MainThread] = "idle")

ClaimedValue(body) ==
    IF body.t = "obj" /\ "response" \in DOMAIN body.f
    THEN body.f["response"]
    ELSE body

\* C7: an answer that raises no transport or HTTP error decides the outcome
\* by status and body: 200 returns the value under 'response' when the parsed
\* body has that key and the whole parsed body otherwise, 204 returns 204, any
\* other status fails with the assertion error.
C7_OutcomeByStatusAndBody ==
    \A t \in Threads :
        GotPlainStatus(t) =>
            LET st == result[t].resp.status
                body == result[t].resp.body
            IN CASE st = 200 ->
                      body # NotJSON => result[t].out = Returned(ClaimedValue(body))
                 [] st = 204 -> result[t].out = Returned(PyInt(204))
                 [] OTHER -> result[t].out.kind = "AssertionError"

\* C8: no step of a call with public_api=False, from its entry to its exit,
\* changes the session headers.
C8_AuthenticatedCallKeepsHeaders ==
    [][\A t \in Threads :
          (\/ (pc[t] # "idle" /\ ~public_api[t])
           \/ (pc'[t] # "idle" /\ ~public_api'[t]))
              => headers' = headers]_vars

\* C8's case: a call with public_api=False has raised HTTPError and the
\* session still holds the header it was constructed with.
C8_Witness ==
    /\ access_token # PyNone
    /\ Done(MainThread)
    /\ ~result[MainThread].public_api
    /\ result[MainThread].out.kind = "HTTPError"
    /\ "authorization" \in DOMAIN headers
    /\ headers["authorization"] = Bearer(access_token.s)

\* C9: when the target file exists, overwrite=True writes it without a
\* prompt, and overwrite=False prompts whatever verbose is and writes only on
\* the answer 'y' (in either case); a file that does not exist is written
\* without a prompt.
C9_ExistingFilePromptsUnlessOverwrite ==
    nsaves > 0 =>
        /\ (saved.existed /\ saved.overwrite) => (saved.wrote /\ ~saved.prompted)
        /\ (saved.existed /\ ~saved.overwrite) =>
              (saved.prompted /\ (saved.wrote <=> saved.answer \in {"y", "Y"}))
        /\ ~saved.existed => (saved.wrote /\ ~saved.prompted)

\* Thread u is in a public call between the removal of the header and its
\* restoration, holding the header it removed.
InStrip(u) ==
    public_api[u] /\ HeaderTruthy(header[u]) /\ pc[u] \in {"request", "restore"}

\* C10: on a client with a token on which no call has raised while holding
\* the header, a call with public_api=False issues its request without the
\* authorization header only while another thread's public call is between
\* its removal of the header and its restoration.
C10_UnauthenticatedOnlyInsideAStrip ==
    [][\A t \in Threads :
          (/\ pc[t] = "request" /\ pc'[t] # "request"
           /\ ~public_api[t]
           /\ "authorization" \notin DOMAIN headers
           /\ ~unrestored)
              => \E u \in Threads \ {t} : InStrip(u)]_vars

\* C10's case: the interleaving.  Two calls were begun and none has ended;
\* the only request issued is the authenticated one, it went out with no
\* authorization header, and the public call has not issued its request yet.
C10_Witness ==
    \E t \in Threads, u \in Threads :
        /\ ncalls = 2
        /\ pc[t] = "restore" /\ ~public_api[t]
        /\ pc[u] = "request" /\ InStrip(u)
        /\ sent = {[public_api |-> FALSE, uri |-> API_ROOT, auth |-> HdrNone]}

====
